---- MODULE Spec2Model ----
(***************************************************************************)
(* Inventory-Agent: the inventory ledger (backend/inventory_service.py),   *)
(* its unit of work (database/db_connection.py), the seeding script        *)
(* (database/seed_data.py) and the entry points that reach the ledger      *)
(* (backend/routes.py).                                                    *)
(*                                                                         *)
(* The database is the pair of tables inventory / transaction_log plus     *)
(* the AUTOINCREMENT counter of inventory.  Names are sequences of         *)
(* one-character strings so that SQL LOWER() is computed, not assumed.     *)
(* A nullable column holds <<>> (NULL) or <<v>>.                           *)
(***************************************************************************)
EXTENDS Integers, Sequences, FiniteSets, TLC

VARIABLES inventory, transaction_log, sqlite_sequence, last, nMut, rt,
          writers, write_lock, seen

vars == <<inventory, transaction_log, sqlite_sequence, last, nMut, rt, writers, write_lock, seen>>

\* ---------------------------------------------------------------- bounds
\* largest quantity a request carries
MaxQty == 2
\* number of committed mutations (ledger writes, seedings) explored
MaxMut == 2

\* ---------------------------------------------------------------- values
None == <<>>
Some(v) == <<v>>

nLaptop == <<"L","a","p","t","o","p">>
nMouse == <<"M","o","u","s","e">>
nKeyboard == <<"K","e","y","b","o","a","r","d">>
nMonitor == <<"M","o","n","i","t","o","r">>
nHeadset == <<"H","e","a","d","s","e","t">>
nUSBCable == <<"U","S","B"," ","C","a","b","l","e">>
nHDMICable == <<"H","D","M","I"," ","C","a","b","l","e">>
nWebcam == <<"W","e","b","c","a","m">>
nMicrophone == <<"M","i","c","r","o","p","h","o","n","e">>
nSpeaker == <<"S","p","e","a","k","e","r">>

nspeaker == <<"s","p","e","a","k","e","r">>
nRice == <<"R","i","c","e">>
nrice == <<"r","i","c","e">>

\* names a JSON request may carry: any case
RequestNames == {nSpeaker, nspeaker, nRice, nrice}
\* names a parsed command carries: the parser lower-cases the text first
ParsedNames == {nspeaker, nrice}

UpperCase == <<"A","B","C","D","E","F","G","H","I","J","K","L","M",
               "N","O","P","Q","R","S","T","U","V","W","X","Y","Z">>
LowerCase == <<"a","b","c","d","e","f","g","h","i","j","k","l","m",
               "n","o","p","q","r","s","t","u","v","w","x","y","z">>

\* the lower-case letter of every upper-case letter
LowerMap ==
    [c \in {UpperCase[i] : i \in 1..26} |->
        LowerCase[CHOOSE i \in 1..26 : UpperCase[i] = c]]

LowerChar(c) == IF c \in DOMAIN LowerMap THEN LowerMap[c] ELSE c

\* SQL LOWER(): folds ASCII letters, leaves every other character alone
LOWER(s) == [i \in 1..Len(s) |-> LowerChar(s[i])]

\* ------------------------------------------------------------- messages
\* a MESSAGES template with the values it is formatted with
Msg(key, item, num) == [key |-> key, item |-> item, num |-> num]

ITEM_ADDED(quantity, item) == Msg("ITEM_ADDED", item, Some(quantity))
ITEM_REMOVED(quantity, item) == Msg("ITEM_REMOVED", item, Some(quantity))
ITEM_UPDATED(item, quantity) == Msg("ITEM_UPDATED", item, Some(quantity))
ITEM_NOT_FOUND(item) == Msg("ITEM_NOT_FOUND", item, None)
INSUFFICIENT_STOCK(item, available) == Msg("INSUFFICIENT_STOCK", item, Some(available))
INVALID_ACTION(action) == Msg("INVALID_ACTION", <<action>>, None)
\* literal messages of the code
Literal(text) == Msg(text, None, None)

\* ------------------------------------------------------------- database
\* the stored tables as one value, so that a unit of work can be rolled back
Db(inv, log, seq) == [inventory |-> inv, transaction_log |-> log, sqlite_sequence |-> seq]

Row(id, name, quantity) == [id |-> id, name |-> name, quantity |-> quantity]

LogEntry(action, item_id, item_name, quantity_change, previous_quantity, new_quantity) ==
    [action |-> action, item_id |-> item_id, item_name |-> item_name,
     quantity_change |-> quantity_change, previous_quantity |-> previous_quantity,
     new_quantity |-> new_quantity]

\* points of one ledger call at which the storage layer may raise sqlite3.Error
Faults == {"none", "lookup", "row", "log", "commit", "reread"}

\* UPDATE inventory SET quantity = ? WHERE id = ?
UpdateQuantity(inv, id, quantity) ==
    {IF r.id = id THEN [r EXCEPT !.quantity = quantity] ELSE r : r \in inv}

\* schema: inventory.name is unique by case-fold, so the INSERT of a name
\* that is already stored raises sqlite3.IntegrityError
UniqueViolation(inv, name) == \E r \in inv : LOWER(r.name) = LOWER(name)

\* INSERT INTO inventory (name, quantity): id from the AUTOINCREMENT counter
InsertInventory_default_quantity(db, name, quantity) ==
    [db EXCEPT !.inventory = @ \cup {Row(db.sqlite_sequence + 1, name, 0)},
               !.sqlite_sequence = @ + 1]

InsertInventory(db, name, quantity) ==
    [db EXCEPT !.inventory = @ \cup {Row(db.sqlite_sequence + 1, name, quantity)},
               !.sqlite_sequence = @ + 1]

\* INSERT INTO transaction_log
InsertLog_or_replace(db, entry) ==
    [db EXCEPT !.transaction_log =
        IF @ = <<>> THEN <<entry>> ELSE [@ EXCEPT ![Len(@)] = entry]]

InsertLog(db, entry) == [db EXCEPT !.transaction_log = Append(@, entry)]

\* get_db_cursor on exit of the with-block: rollback when the block (or the
\* commit) raised, commit of the working copy otherwise
get_db_cursor_no_rollback(committed, working, raised) == working

get_db_cursor(committed, working, raised) ==
    IF raised THEN committed ELSE working

\* one with-block of two statements under an injected fault: the database it
\* leaves committed
UnitOfWork(db, afterRow, afterLog, rowRaises, fault) ==
    LET raised == rowRaises \/ fault \in {"row", "log", "commit"}
        working == IF rowRaises \/ fault = "row" THEN db
                   ELSE IF fault = "log" THEN afterRow
                   ELSE afterLog
    IN  [db |-> get_db_cursor(db, working, raised), raised |-> raised]

\* SELECT * FROM inventory WHERE LOWER(name) = LOWER(?), fetchone;
\* any exception is swallowed and None returned
get_item_case_sensitive(inv, item_name, raises) ==
    LET hits == {r \in inv : r.name = item_name}
    IN  IF raises \/ hits = {} THEN None
        ELSE Some(CHOOSE r \in hits : \A o \in hits : r.id <= o.id)

get_item(inv, item_name, raises) ==
    LET hits == {r \in inv : LOWER(r.name) = LOWER(item_name)}
    IN  IF raises \/ hits = {} THEN None
        ELSE Some(CHOOSE r \in hits : \A o \in hits : r.id <= o.id)

\* SELECT * FROM inventory ORDER BY id DESC
RECURSIVE OrderByIdDesc(_)
OrderByIdDesc(inv) ==
    IF inv = {} THEN <<>>
    ELSE LET top == CHOOSE r \in inv : \A o \in inv : o.id <= r.id
         IN  <<top>> \o OrderByIdDesc(inv \ {top})

get_all_items(inv) == OrderByIdDesc(inv)

\* what a ledger call returns, with the database it leaves
Outcome(db, success, message, item) ==
    [db |-> db, success |-> success, message |-> message, item |-> item]

\* --------------------------------------------------------------- ledger
\* add_item, existing item: the quantity written and the entry logged
add_new_quantity_overwrite(existing_quantity, quantity) == quantity

add_new_quantity(existing_quantity, quantity) == existing_quantity + quantity

add_log_existing_swapped(existing, item_name, quantity, new_quantity) ==
    LogEntry("add", Some(existing.id), item_name, quantity,
             Some(new_quantity), existing.quantity)

add_log_existing(existing, item_name, quantity, new_quantity) ==
    LogEntry("add", Some(existing.id), item_name, quantity,
             Some(existing.quantity), new_quantity)

\* add_item, new item: previous_quantity is not among the inserted columns
add_log_created(item_id, item_name, quantity) ==
    LogEntry("add", Some(item_id), item_name, quantity, None, quantity)

\* add_item: the snapshot is re-read inside the with-block, on a connection
\* of its own and before the commit, so it reads the committed tables
add_item_snapshot(committed, after, item_name, raises) ==
    get_item(committed.inventory, item_name, raises)

add_item(db, item_name, quantity, fault) ==
    LET existing == get_item(db.inventory, item_name, fault = "lookup")
    IN  IF existing # None
        THEN LET new_quantity == add_new_quantity(existing[1].quantity, quantity)
                 afterRow == [db EXCEPT !.inventory =
                                 UpdateQuantity(@, existing[1].id, new_quantity)]
                 afterLog == InsertLog(afterRow,
                                 add_log_existing(existing[1], item_name, quantity, new_quantity))
                 uow == UnitOfWork(db, afterRow, afterLog, FALSE, fault)
             IN  IF uow.raised
                 THEN Outcome(uow.db, FALSE, Literal("Error adding item"), None)
                 ELSE Outcome(uow.db, TRUE, ITEM_ADDED(quantity, item_name),
                              add_item_snapshot(db, afterLog, item_name, fault = "reread"))
        ELSE LET rowRaises == UniqueViolation(db.inventory, item_name)
                 afterRow == InsertInventory(db, item_name, quantity)
                 item_id == afterRow.sqlite_sequence
                 afterLog == InsertLog(afterRow, add_log_created(item_id, item_name, quantity))
                 uow == UnitOfWork(db, afterRow, afterLog, rowRaises, fault)
             IN  IF uow.raised
                 THEN Outcome(uow.db, FALSE, Literal("Error adding item"), None)
                 ELSE Outcome(uow.db, TRUE, ITEM_ADDED(quantity, item_name),
                              add_item_snapshot(db, afterLog, item_name, fault = "reread"))

\* remove_item: the stock pre-check, the message of its failure, the quantity
\* written and the entry logged
insufficient_stock_never(existing_quantity, quantity) == FALSE

insufficient_stock(existing_quantity, quantity) == existing_quantity < quantity

insufficient_stock_message_requested(item_name, existing_quantity, quantity) ==
    INSUFFICIENT_STOCK(item_name, quantity)

insufficient_stock_message(item_name, existing_quantity, quantity) ==
    INSUFFICIENT_STOCK(item_name, existing_quantity)

remove_new_quantity_swapped(existing_quantity, quantity) == quantity - existing_quantity

remove_new_quantity(existing_quantity, quantity) == existing_quantity - quantity

remove_log_unsigned(existing, item_name, quantity, new_quantity) ==
    LogEntry("remove", Some(existing.id), item_name, quantity,
             Some(existing.quantity), new_quantity)

remove_log(existing, item_name, quantity, new_quantity) ==
    LogEntry("remove", Some(existing.id), item_name, -quantity,
             Some(existing.quantity), new_quantity)

remove_item(db, item_name, quantity, fault) ==
    LET existing == get_item(db.inventory, item_name, fault = "lookup")
    IN  IF existing = None
        THEN Outcome(db, FALSE, ITEM_NOT_FOUND(item_name), None)
        ELSE IF insufficient_stock(existing[1].quantity, quantity)
        THEN Outcome(db, FALSE,
                     insufficient_stock_message(item_name, existing[1].quantity, quantity),
                     None)
        ELSE LET new_quantity == remove_new_quantity(existing[1].quantity, quantity)
                 afterRow == [db EXCEPT !.inventory =
                                 UpdateQuantity(@, existing[1].id, new_quantity)]
                 afterLog == InsertLog(afterRow,
                                 remove_log(existing[1], item_name, quantity, new_quantity))
                 uow == UnitOfWork(db, afterRow, afterLog, FALSE, fault)
             IN  IF uow.raised
                 THEN Outcome(uow.db, FALSE, Literal("Error removing item"), None)
                 ELSE Outcome(uow.db, TRUE, ITEM_REMOVED(quantity, item_name),
                              get_item(uow.db.inventory, item_name, fault = "reread"))

\* update_item: the order of its two pre-checks and the entry logged
update_precheck_quantity_first(existing, new_quantity) ==
    IF new_quantity < 0 THEN "negative"
    ELSE IF existing = None THEN "not_found"
    ELSE "ok"

update_precheck(existing, new_quantity) ==
    IF existing = None THEN "not_found"
    ELSE IF new_quantity < 0 THEN "negative"
    ELSE "ok"

update_log_absolute(existing, item_name, new_quantity) ==
    LogEntry("update", Some(existing.id), item_name, new_quantity,
             Some(existing.quantity), new_quantity)

update_log(existing, item_name, new_quantity) ==
    LogEntry("update", Some(existing.id), item_name, new_quantity - existing.quantity,
             Some(existing.quantity), new_quantity)

update_item(db, item_name, new_quantity, fault) ==
    LET existing == get_item(db.inventory, item_name, fault = "lookup")
        check == update_precheck(existing, new_quantity)
    IN  IF check = "not_found"
        THEN Outcome(db, FALSE, ITEM_NOT_FOUND(item_name), None)
        ELSE IF check = "negative"
        THEN Outcome(db, FALSE, Literal("Quantity cannot be negative"), None)
        ELSE LET afterRow == [db EXCEPT !.inventory =
                                 UpdateQuantity(@, existing[1].id, new_quantity)]
                 afterLog == InsertLog(afterRow,
                                 update_log(existing[1], item_name, new_quantity))
                 uow == UnitOfWork(db, afterRow, afterLog, FALSE, fault)
             IN  IF uow.raised
                 THEN Outcome(uow.db, FALSE, Literal("Error updating item"), None)
                 ELSE Outcome(uow.db, TRUE, ITEM_UPDATED(item_name, new_quantity),
                              get_item(uow.db.inventory, item_name, fault = "reread"))

\* ----------------------------------------------------------------- seed
initial_items == <<
    <<nLaptop, 15>>, <<nMouse, 3>>, <<nKeyboard, 0>>, <<nMonitor, 8>>,
    <<nHeadset, 2>>, <<nUSBCable, 25>>, <<nHDMICable, 12>>, <<nWebcam, 4>>,
    <<nMicrophone, 6>>, <<nSpeaker, 1>> >>

\* the loop of seed_database over initial_items[1..n]
RECURSIVE SeedLoop(_, _)
SeedLoop(db, n) ==
    IF n = 0 THEN db
    ELSE LET prev == SeedLoop(db, n - 1)
             name == initial_items[n][1]
             quantity == initial_items[n][2]
         IN  InsertLog(InsertInventory(prev, name, quantity),
                       LogEntry("initial_add", None, name, quantity, None, quantity))

\* DELETE FROM both tables (the AUTOINCREMENT counter survives), then the loop
seed_database(db) ==
    SeedLoop(Db({}, <<>>, db.sqlite_sequence), Len(initial_items))

\* --------------------------------------------------------------- parser
\* text is a sequence of characters; a character outside ASCII is written by
\* its code point
Letters == {LowerCase[i] : i \in 1..26}

DigitChars == <<"0","1","2","3","4","5","6","7","8","9">>

IsSpace(c) == c \in {" ", "\t", "\n"}

IsDigit(c) == \E i \in 1..10 : DigitChars[i] = c

\* the character classes of the patterns: \s, \d, [a-z\s]
InClass(cls, c) ==
    CASE cls = "s" -> IsSpace(c)
      [] cls = "d" -> IsDigit(c)
      [] cls = "az_s" -> c \in Letters \/ IsSpace(c)

\* str.strip(), str.lower(), str.split(), ' '.join(), str.isdigit(), int(), str()
RECURSIVE LStrip(_)
LStrip(s) == IF s # <<>> /\ IsSpace(Head(s)) THEN LStrip(Tail(s)) ELSE s

RECURSIVE RStrip(_)
RStrip(s) ==
    IF s # <<>> /\ IsSpace(s[Len(s)]) THEN RStrip(SubSeq(s, 1, Len(s) - 1)) ELSE s

Strip(s) == RStrip(LStrip(s))

Lower(s) == [i \in 1..Len(s) |-> LowerChar(s[i])]

RECURSIVE SplitFrom(_, _, _)
SplitFrom(s, i, word) ==
    IF i > Len(s) THEN (IF word = <<>> THEN <<>> ELSE <<word>>)
    ELSE IF IsSpace(s[i])
         THEN (IF word = <<>> THEN <<>> ELSE <<word>>) \o SplitFrom(s, i + 1, <<>>)
         ELSE SplitFrom(s, i + 1, Append(word, s[i]))

Split(s) == SplitFrom(s, 1, <<>>)

RECURSIVE Join(_)
Join(words) ==
    IF words = <<>> THEN <<>>
    ELSE IF Len(words) = 1 THEN words[1]
    ELSE words[1] \o <<" ">> \o Join(Tail(words))

IsDigitWord(w) == w # <<>> /\ \A i \in 1..Len(w) : IsDigit(w[i])

DigitValue(c) == (CHOOSE i \in 1..10 : DigitChars[i] = c) - 1

RECURSIVE ToInt(_)
ToInt(w) == IF w = <<>> THEN 0 ELSE 10 * ToInt(SubSeq(w, 1, Len(w) - 1)) + DigitValue(w[Len(w)])

RECURSIVE Str(_)
Str(n) == IF n < 10 THEN <<DigitChars[n + 1]>> ELSE Str(n \div 10) \o <<DigitChars[(n % 10) + 1]>>

\* regular expressions: literal, alternation, concatenation, optional (greedy),
\* repetition of a character class (at least min; greedy or lazy), capturing
\* group, end of text
Lit(s) == [t |-> "lit", s |-> s]
Alt(rs) == [t |-> "alt", rs |-> rs]
Cat(rs) == [t |-> "cat", rs |-> rs]
Opt(r) == [t |-> "opt", r |-> r]
Rep(cls, min, lazy) == [t |-> "rep", cls |-> cls, min |-> min, lazy |-> lazy]
Grp(n, r) == [t |-> "grp", n |-> n, r |-> r]
EndOfText == [t |-> "end"]

\* the number of characters of class cls that start at position pos
RECURSIVE RunLength(_, _, _)
RunLength(cls, text, pos) ==
    IF pos <= Len(text) /\ InClass(cls, text[pos])
    THEN 1 + RunLength(cls, text, pos + 1)
    ELSE 0

\* the matches of re at st.pos, in the order backtracking tries them; a match
\* state is the next position with the groups captured so far
RECURSIVE Run(_, _, _), RunAlt(_, _, _, _), RunCat(_, _, _, _), RunRest(_, _, _, _, _)
Run(re, text, st) ==
    CASE re.t = "lit" ->
           IF /\ st.pos + Len(re.s) - 1 <= Len(text)
              /\ SubSeq(text, st.pos, st.pos + Len(re.s) - 1) = re.s
           THEN <<[st EXCEPT !.pos = @ + Len(re.s)]>>
           ELSE <<>>
      [] re.t = "end" -> IF st.pos = Len(text) + 1 THEN <<st>> ELSE <<>>
      [] re.t = "rep" ->
           LET most == RunLength(re.cls, text, st.pos)
           IN  IF most < re.min THEN <<>>
               ELSE [i \in 1..(most - re.min + 1) |->
                       [st EXCEPT !.pos = @ + (IF re.lazy THEN re.min + i - 1
                                                ELSE most - i + 1)]]
      [] re.t = "opt" -> Run(re.r, text, st) \o <<st>>
      [] re.t = "alt" -> RunAlt(re.rs, 1, text, st)
      [] re.t = "cat" -> RunCat(re.rs, 1, text, st)
      [] re.t = "grp" ->
           LET ms == Run(re.r, text, st)
           IN  [i \in 1..Len(ms) |->
                  [ms[i] EXCEPT !.groups[re.n] = SubSeq(text, st.pos, ms[i].pos - 1)]]

RunAlt(rs, i, text, st) ==
    IF i > Len(rs) THEN <<>>
    ELSE Run(rs[i], text, st) \o RunAlt(rs, i + 1, text, st)

RunCat(rs, i, text, st) ==
    IF i > Len(rs) THEN <<st>>
    ELSE RunRest(Run(rs[i], text, st), 1, rs, i + 1, text)

RunRest(ms, k, rs, j, text) ==
    IF k > Len(ms) THEN <<>>
    ELSE RunCat(rs, j, text, ms[k]) \o RunRest(ms, k + 1, rs, j, text)

\* re.match(pattern, text): None, or the groups of the first match from the
\* start of the text
re_match(re, text) ==
    LET ms == Run(re, text, [pos |-> 1, groups |-> <<None, None>>])
    IN  IF ms = <<>> THEN None ELSE Some(ms[1].groups)

Spaces == Rep("s", 1, FALSE)

UnitsOfAdd == Alt(<<Cat(<<Lit(<<"b","a","g">>), Opt(Lit(<<"s">>))>>), Cat(<<Lit(<<"u","n","i","t">>), Opt(Lit(<<"s">>))>>), Cat(<<Lit(<<"p","c">>), Opt(Lit(<<"s">>))>>), Cat(<<Lit(<<"p","i","e","c","e">>), Opt(Lit(<<"s">>))>>), Lit(<<"k","g">>), Cat(<<Lit(<<"g","r","a","m">>), Opt(Lit(<<"s">>))>>)>>)

UnitsOfRemove == Alt(<<Cat(<<Lit(<<"b","a","g">>), Opt(Lit(<<"s">>))>>), Cat(<<Lit(<<"u","n","i","t">>), Opt(Lit(<<"s">>))>>), Cat(<<Lit(<<"p","c">>), Opt(Lit(<<"s">>))>>)>>)

ItemEnd ==
    Alt(<<Cat(<<Spaces, Lit(<<"a","n","d">>)>>), Cat(<<Spaces, Lit(<<"a","l","s","o">>)>>), EndOfText>>)

\* (?:add|put|insert)\s+(\d+)\s+(?:bags?|units?|pcs?|pieces?|kg|grams?)?\s*(?:of\s+)?([a-z\s]+?)(?:\s+and|\s+also|$)
AddPattern ==
    Cat(<<Alt(<<Lit(<<"a","d","d">>), Lit(<<"p","u","t">>), Lit(<<"i","n","s","e","r","t">>)>>), Spaces, Grp(1, Rep("d", 1, FALSE)), Spaces,
          Opt(UnitsOfAdd), Rep("s", 0, FALSE), Opt(Cat(<<Lit(<<"o","f">>), Spaces>>)),
          Grp(2, Rep("az_s", 1, TRUE)), ItemEnd>>)

\* (?:remove|delete|take)\s+(\d+)\s+(?:bags?|units?|pcs?)?\s*(?:of\s+)?([a-z\s]+?)(?:\s+and|\s+also|$)
RemovePattern ==
    Cat(<<Alt(<<Lit(<<"r","e","m","o","v","e">>), Lit(<<"d","e","l","e","t","e">>), Lit(<<"t","a","k","e">>)>>), Spaces, Grp(1, Rep("d", 1, FALSE)), Spaces,
          Opt(UnitsOfRemove), Rep("s", 0, FALSE), Opt(Cat(<<Lit(<<"o","f">>), Spaces>>)),
          Grp(2, Rep("az_s", 1, TRUE)), ItemEnd>>)

\* (?:update|change|set)\s+([a-z\s]+?)\s+(?:quantity\s+)?to\s+(\d+)
UpdatePattern ==
    Cat(<<Alt(<<Lit(<<"u","p","d","a","t","e">>), Lit(<<"c","h","a","n","g","e">>), Lit(<<"s","e","t">>)>>), Spaces, Grp(1, Rep("az_s", 1, TRUE)), Spaces,
          Opt(Cat(<<Lit(<<"q","u","a","n","t","i","t","y">>), Spaces>>)), Lit(<<"t","o">>), Spaces,
          Grp(2, Rep("d", 1, FALSE))>>)

\* (?:check|how\s+many|quantity\s+of)\s+([a-z\s]+)
CheckPattern ==
    Cat(<<Alt(<<Lit(<<"c","h","e","c","k">>),
                Cat(<<Lit(<<"h","o","w">>), Spaces, Lit(<<"m","a","n","y">>)>>),
                Cat(<<Lit(<<"q","u","a","n","t","i","t","y">>), Spaces, Lit(<<"o","f">>)>>)>>),
          Spaces, Grp(1, Rep("az_s", 1, FALSE))>>)

\* (?:list|show|get)\s+(?:all|inventory)
ListPattern ==
    Cat(<<Alt(<<Lit(<<"l","i","s","t">>), Lit(<<"s","h","o","w">>), Lit(<<"g","e","t">>)>>), Spaces, Alt(<<Lit(<<"a","l","l">>), Lit(<<"i","n","v","e","n","t","o","r","y">>)>>)>>)

STOP_WORDS ==
    {<<"a","n","d">>,
     <<"a","l","s","o">>,
     <<"t","h","e">>,
     <<"a">>,
     <<"a","n">>,
     <<"o","f">>,
     <<"i","n">>,
     <<"t","o">>,
     <<"f","o","r">>,
     <<"w","i","t","h">>,
     <<"p","l","e","a","s","e">>,
     <<"c","a","n">>,
     <<"y","o","u">>,
     <<"i">>,
     <<"w","a","n","t">>,
     <<"n","e","e","d">>,
     <<"s","u","c","c","e","s","s","f","u","l","l","y">>,
     <<"u","n","d","e","r">>,
     <<"f","o","r","e","s","t">>,
     <<"p","a","c","k","e","t","s">>,
     <<"p","a","c","k","e","t">>}

\* a ParsedCommand of the parser, with its confidence
ParsedCommand(action, item, quantity, raw_text, confidence) ==
    [action |-> action, item |-> item, quantity |-> quantity,
     raw_text |-> raw_text, confidence |-> confidence]

\* clean_item_name: the stop words dropped; the stripped span when nothing is left
clean_item_name(raw_item) ==
    LET words == Split(Strip(raw_item))
        cleaned == SelectSeq(words, LAMBDA w : Lower(w) \notin STOP_WORDS)
    IN  IF cleaned # <<>> THEN Strip(Join(cleaned)) ELSE Strip(raw_item)

\* the patterns in the order they are tried
try_structured_parse(text) ==
    LET m1 == re_match(AddPattern, text)
        m2 == re_match(RemovePattern, text)
        m3 == re_match(UpdatePattern, text)
        m4 == re_match(CheckPattern, text)
        m5 == re_match(ListPattern, text)
    IN  IF m1 # None
        THEN Some(ParsedCommand("add", clean_item_name(m1[1][2]), ToInt(m1[1][1]), text, "1.0"))
        ELSE IF m2 # None
        THEN Some(ParsedCommand("remove", clean_item_name(m2[1][2]), ToInt(m2[1][1]), text, "1.0"))
        ELSE IF m3 # None
        THEN Some(ParsedCommand("update", clean_item_name(m3[1][1]), ToInt(m3[1][2]), text, "1.0"))
        ELSE IF m4 # None
        THEN Some(ParsedCommand("check", clean_item_name(m4[1][1]), 0, text, "1.0"))
        ELSE IF m5 # None
        THEN Some(ParsedCommand("list", <<"a","l","l">>, 0, text, "1.0"))
        ELSE None

action_map ==
    <<<<<<"a","d","d">>, "add">>,
       <<<<"p","u","t">>, "add">>,
       <<<<"i","n","s","e","r","t">>, "add">>,
       <<<<"r","e","m","o","v","e">>, "remove">>,
       <<<<"d","e","l","e","t","e">>, "remove">>,
       <<<<"t","a","k","e">>, "remove">>,
       <<<<"u","p","d","a","t","e">>, "update">>,
       <<<<"c","h","a","n","g","e">>, "update">>,
       <<<<"s","e","t">>, "update">>,
       <<<<"c","h","e","c","k">>, "check">>,
       <<<<"h","o","w">>, "check">>,
       <<<<"l","i","s","t">>, "list">>,
       <<<<"s","h","o","w">>, "list">>>>

IsActionWord(w) == \E k \in 1..Len(action_map) : action_map[k][1] = w

ActionOf(w) == action_map[CHOOSE k \in 1..Len(action_map) : action_map[k][1] = w][2]

\* the index of the first action word / first number, 0 when there is none
\* (the code's -1: both make max(action_idx + 1, quantity_idx + 1) ignore it)
RECURSIVE FirstActionIndex(_, _)
FirstActionIndex(words, i) ==
    IF i > Len(words) THEN 0
    ELSE IF IsActionWord(words[i]) THEN i
    ELSE FirstActionIndex(words, i + 1)

RECURSIVE FirstDigitIndex(_, _)
FirstDigitIndex(words, i) ==
    IF i > Len(words) THEN 0
    ELSE IF IsDigitWord(words[i]) THEN i
    ELSE FirstDigitIndex(words, i + 1)

\* the loop over words[start_idx:]: stops at a stop word, skips numbers and
\* unit words
RECURSIVE ItemWords(_, _)
ItemWords(words, i) ==
    IF i > Len(words) THEN <<>>
    ELSE IF words[i] \in STOP_WORDS \/ words[i] \in {<<"a","n","d">>, <<"a","l","s","o">>} THEN <<>>
    ELSE IF IsDigitWord(words[i]) \/ words[i] \in {<<"b","a","g","s">>, <<"b","a","g">>, <<"u","n","i","t","s">>, <<"u","n","i","t">>, <<"o","f">>}
         THEN ItemWords(words, i + 1)
    ELSE <<words[i]>> \o ItemWords(words, i + 1)

flexible_parse(text) ==
    LET words == Split(text)
        action_idx == FirstActionIndex(words, 1)
        quantity_idx == FirstDigitIndex(words, 1)
        quantity == IF quantity_idx = 0 THEN 0 ELSE ToInt(words[quantity_idx])
        start_idx == IF action_idx + 1 > quantity_idx + 1
                     THEN action_idx + 1 ELSE quantity_idx + 1
        item == Strip(Join(ItemWords(words, start_idx)))
    IN  IF action_idx = 0 THEN None
        ELSE IF item = <<>> THEN None
        ELSE Some(ParsedCommand(ActionOf(words[action_idx]), item,
                                IF quantity > 0 THEN quantity ELSE 1, text, "0.7"))

\* CommandParser.parse
parse(text) ==
    IF text = <<>> \/ Strip(text) = <<>> THEN None
    ELSE LET t == Lower(Strip(text))
             parsed == try_structured_parse(t)
         IN  IF parsed # None THEN parsed ELSE flexible_parse(t)

\* ------------------------------------------------------------- lexicon
\* ACTION_KEYWORDS: the keywords of every action, in the order of the table
ACTION_KEYWORDS ==
    [add |-> <<<<"a","d","d">>,
               <<"p","u","t">>,
               <<"i","n","s","e","r","t">>,
               <<"U+0C06","U+0C21","U+0C4D">>,
               <<"U+0C1A","U+0C46","U+0C2F","U+0C4D">>,
               <<"U+0C2A","U+0C46","U+0C1F","U+0C4D","U+0C1F","U+0C41">>,
               <<"U+091C","U+094B","U+0921","U+093C","U+094B">>,
               <<"U+0921","U+093E","U+0932","U+094B">>,
               <<"U+0930","U+0916","U+094B">>>>,
     remove |-> <<<<"r","e","m","o","v","e">>,
                  <<"d","e","l","e","t","e">>,
                  <<"t","a","k","e">>,
                  <<"U+0C24","U+0C40","U+0C38","U+0C47","U+0C2F">>,
                  <<"U+0C24","U+0C40","U+0C2F">>,
                  <<"U+0C24","U+0C4A","U+0C32","U+0C17","U+0C3F","U+0C02","U+0C1A","U+0C41">>,
                  <<"U+0939","U+091F","U+093E","U+0913">>,
                  <<"U+0928","U+093F","U+0915","U+093E","U+0932","U+094B">>,
                  <<"U+0932","U+0947"," ","U+0932","U+094B">>>>,
     update |-> <<<<"u","p","d","a","t","e">>,
                  <<"c","h","a","n","g","e">>,
                  <<"s","e","t">>,
                  <<"U+0C05","U+0C2A","U+0C4D","U+0C21","U+0C47","U+0C1F","U+0C4D">>,
                  <<"U+0C2E","U+0C3E","U+0C30","U+0C4D","U+0C1A","U+0C41">>,
                  <<"U+0938","U+0947","U+091F">>,
                  <<"U+092C","U+0926","U+0932","U+094B">>,
                  <<"U+0905","U+092A","U+0921","U+0947","U+091F">>>>,
     check |-> <<<<"c","h","e","c","k">>,
                 <<"h","o","w"," ","m","a","n","y">>,
                 <<"q","u","a","n","t","i","t","y"," ","o","f">>,
                 <<"U+0C1A","U+0C46","U+0C15","U+0C4D">>,
                 <<"U+0C0E","U+0C02","U+0C24">>,
                 <<"U+091A","U+0947","U+0915">>,
                 <<"U+0915","U+093F","U+0924","U+0928","U+093E">>,
                 <<"U+092E","U+093E","U+0924","U+094D","U+0930","U+093E">>>>,
     list |-> <<<<"l","i","s","t">>,
                <<"s","h","o","w">>,
                <<"g","e","t">>,
                <<"U+0C32","U+0C3F","U+0C38","U+0C4D","U+0C1F","U+0C4D">>,
                <<"U+0C1A","U+0C42","U+0C2A","U+0C3F","U+0C02","U+0C1A","U+0C41">>,
                <<"U+0938","U+0942","U+091A","U+0940">>,
                <<"U+0926","U+093F","U+0916","U+093E","U+0913">>,
                <<"U+0932","U+093F","U+0938","U+094D","U+091F">>>>]

\* the characters of the Telugu and of the Devanagari script that the table uses
TeluguScript ==
    {"U+0C02", "U+0C05", "U+0C06", "U+0C0E", "U+0C15", "U+0C17", "U+0C1A",
     "U+0C1F", "U+0C21", "U+0C24", "U+0C2A", "U+0C2E", "U+0C2F", "U+0C30",
     "U+0C32", "U+0C38", "U+0C3E", "U+0C3F", "U+0C40", "U+0C41", "U+0C42",
     "U+0C46", "U+0C47", "U+0C4A", "U+0C4D"}

Devanagari ==
    {"U+0905", "U+0913", "U+0915", "U+0916", "U+091A", "U+091C", "U+091F",
     "U+0921", "U+0924", "U+0926", "U+0928", "U+092A", "U+092C", "U+092E",
     "U+0930", "U+0932", "U+0938", "U+0939", "U+093C", "U+093E", "U+093F",
     "U+0940", "U+0942", "U+0947", "U+094B", "U+094D"}


\* the language of a keyword of the table, by its script
LanguageOf(k) ==
    IF k[1] \in TeluguScript THEN "te"
    ELSE IF k[1] \in Devanagari THEN "hi"
    ELSE "en"

Actions == {"add", "remove", "update", "check", "list"}

Languages == {"en", "te", "hi"}

KeywordsOf(action, lang) ==
    {ACTION_KEYWORDS[action][i] : i \in {j \in 1..Len(ACTION_KEYWORDS[action]) :
                                          LanguageOf(ACTION_KEYWORDS[action][j]) = lang}}

\* ---------------------------------------------------------- utterances
\* the texts a caller sends: built from a keyword, a quantity and an item
wTo == <<"t","o">>
wAll == <<"a","l","l">>
wOf == <<"o","f">>
wBags == <<"b","a","g","s">>
wUnits == <<"u","n","i","t","s">>
wKg == <<"k","g">>
wThe == <<"t","h","e">>

\* the words that are there, separated by single spaces
Sentence(words) == Join(SelectSeq(words, LAMBDA w : w # <<>>))

\* the correctly formed utterance of an action: '<K> <n> <X>' for add and
\* remove, '<K> <X> to <n>' for update, '<K> <X>' for check, '<K> all' for list
WellFormed(action, k, n, x) ==
    CASE action \in {"add", "remove"} -> Sentence(<<k, Str(n), x>>)
      [] action = "update" -> Sentence(<<k, x, wTo, Str(n)>>)
      [] action = "check" -> Sentence(<<k, x>>)
      [] action = "list" -> Sentence(<<k, wAll>>)

\* the two surface orders of add and remove; unit is a unit word or nothing
KeywordFirst(k, n, unit, x) == Sentence(<<k, Str(n), unit, x>>)

KeywordLast(k, n, unit, x) == Sentence(<<Str(n), unit, x, k>>)

UnitWords == {<<>>, wBags, wUnits, wKg}

\* the keywords of the two patterns for add and remove
AddRemoveKeywords == KeywordsOf("add", "en") \cup KeywordsOf("remove", "en")

EmptyTexts == {<<>>, <<" ">>, <<" ", "\t", " ">>}

\* a keyword followed by a span without a letter, or by stop words only
BareTexts ==
    {<<"c","h","e","c","k"," "," ">> \o Str(n) : n \in 0..MaxQty}
    \cup {<<"u","p","d","a","t","e"," "," "," ","t","o"," ">> \o Str(n) : n \in 0..MaxQty}
    \cup {Sentence(<<<<"c","h","e","c","k">>, wThe>>),
          Sentence(<<<<"a","d","d">>, Str(1), wOf, wThe>>),
          Sentence(<<<<"r","e","m","o","v","e">>, Str(1), wThe, wOf>>)}

\* the utterances of the voice-command requests: the English forms, texts that
\* are empty, a text without a keyword, upper case, no quantity, Hindi
VoiceTexts ==
    {WellFormed(a, ACTION_KEYWORDS[a][1], n, x) :
        a \in Actions, n \in 0..MaxQty, x \in ParsedNames}
    \cup EmptyTexts
    \cup {nrice,
          <<" ">> \o Sentence(<<<<"A","d","d">>, Str(1), nRice>>) \o <<" ">>,
          Sentence(<<<<"a","d","d">>, nrice>>),
          WellFormed("add", CHOOSE k \in KeywordsOf("add", "hi") : TRUE, 1, nrice)}

\* the utterances given to the parser
Utterances ==
    VoiceTexts
    \cup BareTexts
    \cup UNION {{WellFormed(a, ACTION_KEYWORDS[a][i], n, x) :
                    i \in DOMAIN ACTION_KEYWORDS[a], n \in 1..MaxQty, x \in ParsedNames} :
                 a \in Actions}
    \cup {KeywordFirst(k, n, u, x) :
             k \in AddRemoveKeywords, n \in 1..MaxQty, u \in UnitWords, x \in ParsedNames}
    \cup {KeywordLast(k, n, u, x) :
             k \in AddRemoveKeywords, n \in 1..MaxQty, u \in UnitWords, x \in ParsedNames}

\* --------------------------------------------------------- entry points
\* what an entry point answers, with the database it leaves; op is the ledger
\* operation it invoked ("none" when the request was rejected before)
Answer(db, op, success, message, data) ==
    [db |-> db, op |-> op, success |-> success, message |-> message, data |-> data]

\* POST /api/inventory/add
add_inventory(db, item_name, quantity, fault) ==
    IF quantity <= 0
    THEN Answer(db, "none", FALSE, Literal("Quantity must be positive"), None)
    ELSE LET r == add_item(db, item_name, quantity, fault)
         IN  Answer(r.db, "add", r.success, r.message,
                    IF r.success THEN r.item ELSE None)

\* POST /api/inventory/remove
remove_inventory(db, item_name, quantity, fault) ==
    IF quantity <= 0
    THEN Answer(db, "none", FALSE, Literal("Quantity must be positive"), None)
    ELSE LET r == remove_item(db, item_name, quantity, fault)
         IN  Answer(r.db, "remove", r.success, r.message,
                    IF r.success THEN r.item ELSE None)

\* PUT /api/inventory/update
update_inventory(db, item_name, quantity, fault) ==
    IF quantity < 0
    THEN Answer(db, "none", FALSE, Literal("Quantity cannot be negative"), None)
    ELSE LET r == update_item(db, item_name, quantity, fault)
         IN  Answer(r.db, "update", r.success, r.message,
                    IF r.success THEN r.item ELSE None)

\* a ParsedCommand; the parser takes quantity from \d+ (or defaults it to 1)
\* and item from lower-cased text
Parsed(action, item, quantity) == [action |-> action, item |-> item, quantity |-> quantity]

ParsedCommands ==
    {Parsed(a, i, q) : a \in {"add", "remove", "update", "check", "list"},
                       i \in ParsedNames, q \in 0..MaxQty}

\* the check branch of the dispatcher: a lookup, and a message from its result
check_item_logged(db, item, fault) ==
    LET data == get_item(db.inventory, item, fault = "lookup")
    IN  IF data # None
        THEN Answer(InsertLog(db, LogEntry("check", Some(data[1].id), item, 0,
                                           Some(data[1].quantity), data[1].quantity)),
                    "check", TRUE, Msg("has units", item, Some(data[1].quantity)), data)
        ELSE Answer(db, "check", FALSE, ITEM_NOT_FOUND(item), data)

check_item(db, item, fault) ==
    LET data == get_item(db.inventory, item, fault = "lookup")
    IN  IF data # None
        THEN Answer(db, "check", TRUE, Msg("has units", item, Some(data[1].quantity)), data)
        ELSE Answer(db, "check", FALSE, ITEM_NOT_FOUND(item), data)

\* the list branch: get_all_items answers [] when its query fails
list_items(db, fault) ==
    LET data == IF fault = "lookup" THEN <<>> ELSE get_all_items(db.inventory)
    IN  Answer(db, "list", TRUE, Msg("Found items", None, Some(Len(data))), data)

\* the else branch: an action that is none of the five
invalid_action_as_add(db, parsed, fault) ==
    LET r == add_item(db, parsed.item, parsed.quantity, fault)
    IN  Answer(r.db, "none", FALSE, INVALID_ACTION(parsed.action), None)

invalid_action(db, parsed, fault) ==
    Answer(db, "none", FALSE, INVALID_ACTION(parsed.action), None)

\* the dispatcher of the voice-command handler
execute_inventory_action(db, parsed, fault) ==
    IF parsed.action = "add"
    THEN LET r == add_item(db, parsed.item, parsed.quantity, fault)
         IN  Answer(r.db, "add", r.success, r.message, r.item)
    ELSE IF parsed.action = "remove"
    THEN LET r == remove_item(db, parsed.item, parsed.quantity, fault)
         IN  Answer(r.db, "remove", r.success, r.message, r.item)
    ELSE IF parsed.action = "update"
    THEN LET r == update_item(db, parsed.item, parsed.quantity, fault)
         IN  Answer(r.db, "update", r.success, r.message, r.item)
    ELSE IF parsed.action = "check"
    THEN check_item(db, parsed.item, fault)
    ELSE IF parsed.action = "list"
    THEN list_items(db, fault)
    ELSE invalid_action(db, parsed, fault)

\* process_text_command: the text, stripped
process_text_command(text) == Strip(text)

\* parse_command
parse_command(text) == parse(text)

INVALID_COMMAND(command) == Msg("INVALID_COMMAND", command, None)

\* what the voice-command handler answers: the envelope's status, the text it
\* recognized, the parsed command, and the dispatcher's answer
VoiceAnswer(status, command_text, parsed, a) ==
    [status |-> status, command_text |-> command_text, parsed |-> parsed, a |-> a]

\* POST /api/voice-command with {"text": text}
handle_voice_command_dispatches_default(db, text, fault) ==
    LET command_text == process_text_command(text)
        parsed == parse_command(command_text)
    IN  IF parsed = None
        THEN VoiceAnswer("error", command_text, parsed,
                         execute_inventory_action(db, Parsed("add", command_text, 1), fault))
        ELSE VoiceAnswer("success", command_text, parsed,
                         execute_inventory_action(db, parsed[1], fault))

handle_voice_command(db, text, fault) ==
    LET command_text == process_text_command(text)
        parsed == parse_command(command_text)
    IN  IF parsed = None
        THEN VoiceAnswer("error", command_text, parsed,
                         Answer(db, "none", FALSE, INVALID_COMMAND(command_text), None))
        ELSE VoiceAnswer("success", command_text, parsed,
                         execute_inventory_action(db, parsed[1], fault))

\* ---------------------------------------------------------------- state
Cur == Db(inventory, transaction_log, sqlite_sequence)

EmptyDb == Db({}, <<>>, 0)

\* the request being answered and its answer (NoRequest when idle: requests
\* are handled one at a time, to completion)
\* text and parsed are those of a voice command or of a call of the parser
Last(entry, item_name, quantity, fault, a) ==
    [entry |-> entry, op |-> a.op, item_name |-> item_name, quantity |-> quantity,
     fault |-> fault, success |-> a.success, message |-> a.message, data |-> a.data,
     status |-> IF a.success THEN "success" ELSE "error", text |-> None, parsed |-> None]

NoRequest ==
    [entry |-> "idle", op |-> "none", item_name |-> None, quantity |-> 0,
     fault |-> "none", success |-> TRUE, message |-> Literal(""), data |-> None,
     status |-> "success", text |-> None, parsed |-> None]

\* the last request was a voice command: item and quantity are those of the
\* parsed command, when there is one
VoiceLast(text, fault, v) ==
    [Last("voice",
          IF v.parsed = None THEN None ELSE v.parsed[1].item,
          IF v.parsed = None THEN 0 ELSE v.parsed[1].quantity,
          fault, v.a)
     EXCEPT !.status = v.status, !.text = Some(text), !.parsed = v.parsed]

\* the tables after a request, and the count of committed changes
Store(db) ==
    /\ inventory' = db.inventory
    /\ transaction_log' = db.transaction_log
    /\ sqlite_sequence' = db.sqlite_sequence
    /\ nMut' = IF db = Cur THEN nMut ELSE nMut + 1

\* the two callers of the ledger that may run at the same time, each on
\* connections of its own; pc is the statement a caller is at
Writers == {1, 2}

\* no request in progress, no write lock held, nothing read
ConcOff ==
    /\ writers = [w \in Writers |->
                     [pc |-> "idle", op |-> "none", item_name |-> None, quantity |-> 0,
                      existing |-> None, working |-> EmptyDb, success |-> FALSE,
                      overlap |-> FALSE]]
    /\ write_lock = 0
    /\ seen = None

RTOff == [stage |-> 0, name |-> None, a |-> 0, b |-> 0, first |-> None, second |-> None]

\* init_database leaves empty tables; initialize_database seeds them
Init ==
    /\ \E db \in {EmptyDb, seed_database(EmptyDb)} :
          /\ inventory = db.inventory
          /\ transaction_log = db.transaction_log
          /\ sqlite_sequence = db.sqlite_sequence
    /\ last = NoRequest
    /\ nMut = 0
    /\ rt = RTOff
    /\ ConcOff

\* quantities a JSON request may carry
RequestQty == -1..MaxQty

HttpAdd ==
    \E item_name \in RequestNames, quantity \in RequestQty, fault \in Faults :
        /\ last = NoRequest
        /\ nMut < MaxMut
        /\ LET a == add_inventory(Cur, item_name, quantity, fault)
           IN  /\ Store(a.db)
               /\ last' = Last("http_add", item_name, quantity, fault, a)
        /\ UNCHANGED <<rt, writers, write_lock, seen>>

HttpRemove ==
    \E item_name \in RequestNames, quantity \in RequestQty, fault \in Faults :
        /\ last = NoRequest
        /\ nMut < MaxMut
        /\ LET a == remove_inventory(Cur, item_name, quantity, fault)
           IN  /\ Store(a.db)
               /\ last' = Last("http_remove", item_name, quantity, fault, a)
        /\ UNCHANGED <<rt, writers, write_lock, seen>>

HttpUpdate ==
    \E item_name \in RequestNames, quantity \in RequestQty, fault \in Faults :
        /\ last = NoRequest
        /\ nMut < MaxMut
        /\ LET a == update_inventory(Cur, item_name, quantity, fault)
           IN  /\ Store(a.db)
               /\ last' = Last("http_update", item_name, quantity, fault, a)
        /\ UNCHANGED <<rt, writers, write_lock, seen>>

\* POST /api/voice-command: the text is stripped, parsed and dispatched
VoiceCommand ==
    \E text \in VoiceTexts, fault \in Faults :
        /\ last = NoRequest
        /\ nMut < MaxMut
        /\ LET v == handle_voice_command(Cur, text, fault)
           IN  /\ Store(v.a.db)
               /\ last' = VoiceLast(text, fault, v)
        /\ UNCHANGED <<rt, writers, write_lock, seen>>

\* python seed_data.py
Seed ==
    /\ last = NoRequest
    /\ nMut < MaxMut
    /\ LET db == seed_database(Cur)
       IN  /\ inventory' = db.inventory
           /\ transaction_log' = db.transaction_log
           /\ sqlite_sequence' = db.sqlite_sequence
    /\ nMut' = nMut + 1
    /\ UNCHANGED <<last, rt, writers, write_lock, seen>>

\* the answer is returned to the caller; the server is idle again
Respond ==
    /\ last # NoRequest
    /\ last' = NoRequest
    /\ UNCHANGED <<inventory, transaction_log, sqlite_sequence, nMut, rt, writers, write_lock, seen>>

Next == HttpAdd \/ HttpRemove \/ HttpUpdate \/ VoiceCommand \/ Seed \/ Respond

Spec == Init /\ [][Next]_vars

\* the ledger called directly, with any integer
LedgerQty == -1..MaxQty

CallAddItem ==
    \E item_name \in RequestNames, quantity \in LedgerQty, fault \in Faults :
        /\ last = NoRequest
        /\ nMut < MaxMut
        /\ LET r == add_item(Cur, item_name, quantity, fault)
           IN  /\ Store(r.db)
               /\ last' = Last("add_item", item_name, quantity, fault,
                               Answer(r.db, "add", r.success, r.message, r.item))
        /\ UNCHANGED <<rt, writers, write_lock, seen>>

CallRemoveItem ==
    \E item_name \in RequestNames, quantity \in LedgerQty, fault \in Faults :
        /\ last = NoRequest
        /\ nMut < MaxMut
        /\ LET r == remove_item(Cur, item_name, quantity, fault)
           IN  /\ Store(r.db)
               /\ last' = Last("remove_item", item_name, quantity, fault,
                               Answer(r.db, "remove", r.success, r.message, r.item))
        /\ UNCHANGED <<rt, writers, write_lock, seen>>

CallUpdateItem ==
    \E item_name \in RequestNames, quantity \in LedgerQty, fault \in Faults :
        /\ last = NoRequest
        /\ nMut < MaxMut
        /\ LET r == update_item(Cur, item_name, quantity, fault)
           IN  /\ Store(r.db)
               /\ last' = Last("update_item", item_name, quantity, fault,
                               Answer(r.db, "update", r.success, r.message, r.item))
        /\ UNCHANGED <<rt, writers, write_lock, seen>>

NextLedger == CallAddItem \/ CallRemoveItem \/ CallUpdateItem \/ Respond

SpecLedger == Init /\ [][NextLedger]_vars

\* the dispatcher called with a ParsedCommand, of any action string
DispatchActions == Actions \cup {"delete", ""}

Dispatch ==
    \E action \in DispatchActions, item \in ParsedNames, quantity \in 0..MaxQty,
       fault \in Faults :
        /\ last = NoRequest
        /\ nMut < MaxMut
        /\ LET a == execute_inventory_action(Cur, Parsed(action, item, quantity), fault)
           IN  /\ Store(a.db)
               /\ last' = [Last("dispatch", item, quantity, fault, a)
                            EXCEPT !.parsed = Some(Parsed(action, item, quantity))]
        /\ UNCHANGED <<rt, writers, write_lock, seen>>

NextDispatch == Dispatch \/ Respond

SpecDispatch == Init /\ [][NextDispatch]_vars

\* the parser called with a text
ParseText ==
    \E text \in Utterances :
        /\ last = NoRequest
        /\ last' = [NoRequest EXCEPT !.entry = "parse", !.text = Some(text),
                                      !.parsed = parse_command(text)]
        /\ UNCHANGED <<inventory, transaction_log, sqlite_sequence, nMut, rt, writers, write_lock, seen>>

NextParse == ParseText \/ Respond

SpecParse == Init /\ [][NextParse]_vars

\* ------------------------------------------------- add / check round trip
\* the scenario add(name, a); check(name); add(name, b); check(name) on a
\* database that holds no item of that name
RTQty == 1..(MaxQty + 1)

\* the quantity a check answer reports
Reported(a) == IF a.data = None THEN None ELSE Some(a.data[1].quantity)

InitRT ==
    /\ ConcOff
    /\ \E db \in {EmptyDb, seed_database(EmptyDb)} :
          /\ inventory = db.inventory
          /\ transaction_log = db.transaction_log
          /\ sqlite_sequence = db.sqlite_sequence
    /\ last = NoRequest
    /\ nMut = 0
    /\ \E name \in RequestNames, a \in RTQty, b \in RTQty :
          /\ get_item(inventory, name, FALSE) = None
          /\ rt = [stage |-> 1, name |-> name, a |-> a, b |-> b,
                   first |-> None, second |-> None]

RTAdd ==
    /\ rt.stage \in {1, 3}
    /\ LET r == add_item(Cur, rt.name, IF rt.stage = 1 THEN rt.a ELSE rt.b, "none")
       IN  Store(r.db)
    /\ rt' = [rt EXCEPT !.stage = @ + 1]
    /\ UNCHANGED <<last, writers, write_lock, seen>>

RTCheck ==
    /\ rt.stage \in {2, 4}
    /\ LET a == execute_inventory_action(Cur, Parsed("check", rt.name, 0), "none")
       IN  rt' = IF rt.stage = 2
                 THEN [rt EXCEPT !.stage = 3, !.first = Reported(a)]
                 ELSE [rt EXCEPT !.stage = 5, !.second = Reported(a)]
    /\ UNCHANGED <<inventory, transaction_log, sqlite_sequence, nMut, last, writers, write_lock, seen>>

NextRT == RTAdd \/ RTCheck

SpecRT == InitRT /\ [][NextRT]_vars

\* ------------------------------------------------- concurrent requests
\* Two ledger calls and a reader run at the same time. Every query opens a
\* connection of its own (get_connection), so inventory, transaction_log and
\* sqlite_sequence are the committed tables, a writer's uncommitted statements
\* live in its working copy, and write_lock is the writer holding SQLite's
\* write lock (0: nobody).
\* execute_query / a read method: the SELECT runs on a connection of its
\* own, which sees the committed tables and not the working copy of a writer
execute_query_shared_connection(committed, working, writing) ==
    IF writing THEN working ELSE committed

execute_query(committed, working, writing) == committed

\* get_item at the head of add_item / remove_item, in a transaction of its
\* own, followed by remove_item's two pre-checks
WRead(w) ==
    \E op \in {"add", "remove"}, item_name \in RequestNames, quantity \in 1..MaxQty :
        LET existing == get_item(inventory, item_name, FALSE)
            rejected == /\ op = "remove"
                        /\ \/ existing = None
                           \/ insufficient_stock(existing[1].quantity, quantity)
            others == {o \in Writers \ {w} :
                          writers[o].pc \in {"row", "log", "commit"}}
        IN  /\ writers[w].pc = "idle"
            /\ writers' = [writers EXCEPT ![w] =
                   [pc |-> IF rejected THEN "done" ELSE "row",
                    op |-> op, item_name |-> item_name, quantity |-> quantity,
                    existing |-> existing, working |-> EmptyDb,
                    success |-> FALSE, overlap |-> others # {}]]
            /\ UNCHANGED <<inventory, transaction_log, sqlite_sequence, last, nMut,
                           rt, write_lock, seen>>

\* the quantity a writer computed from the row it read
conc_new_quantity_current(wr) ==
    LET current == get_item(inventory, wr.item_name, FALSE)
    IN  IF wr.op = "add" THEN add_new_quantity(current[1].quantity, wr.quantity)
        ELSE remove_new_quantity(current[1].quantity, wr.quantity)

conc_new_quantity(wr) ==
    IF wr.op = "add" THEN add_new_quantity(wr.existing[1].quantity, wr.quantity)
    ELSE remove_new_quantity(wr.existing[1].quantity, wr.quantity)

\* the first statement of the with-block: UPDATE inventory (INSERT for a new
\* item) takes the write lock and changes the working copy; an INSERT of a
\* name another call committed meanwhile raises and the block rolls back
WRow(w) ==
    LET wr == writers[w]
        rowRaises == wr.existing = None /\ UniqueViolation(inventory, wr.item_name)
        afterRow == IF wr.existing = None
                    THEN InsertInventory(Cur, wr.item_name, wr.quantity)
                    ELSE [Cur EXCEPT !.inventory =
                             UpdateQuantity(@, wr.existing[1].id, conc_new_quantity(wr))]
    IN  /\ wr.pc = "row"
        /\ write_lock = 0
        /\ IF rowRaises
           THEN /\ writers' = [writers EXCEPT ![w].pc = "done"]
                /\ UNCHANGED write_lock
           ELSE /\ writers' = [writers EXCEPT ![w].pc = "log", ![w].working = afterRow]
                /\ write_lock' = w
        /\ UNCHANGED <<inventory, transaction_log, sqlite_sequence, last, nMut, rt, seen>>

\* the write lock is held by the other call until the busy timeout expires:
\* sqlite3.OperationalError, rollback, the call answers failure
WBusy(w) ==
    /\ writers[w].pc = "row"
    /\ write_lock \notin {0, w}
    /\ writers' = [writers EXCEPT ![w].pc = "done"]
    /\ UNCHANGED <<inventory, transaction_log, sqlite_sequence, last, nMut, rt,
                   write_lock, seen>>

\* the second statement of the with-block: INSERT INTO transaction_log
WLog(w) ==
    LET wr == writers[w]
        entry == IF wr.existing = None
                 THEN add_log_created(wr.working.sqlite_sequence, wr.item_name, wr.quantity)
                 ELSE IF wr.op = "add"
                 THEN add_log_existing(wr.existing[1], wr.item_name, wr.quantity,
                                       conc_new_quantity(wr))
                 ELSE remove_log(wr.existing[1], wr.item_name, wr.quantity,
                                 conc_new_quantity(wr))
    IN  /\ wr.pc = "log"
        /\ writers' = [writers EXCEPT ![w].pc = "commit",
                                      ![w].working = InsertLog(@, entry)]
        /\ UNCHANGED <<inventory, transaction_log, sqlite_sequence, last, nMut, rt,
                       write_lock, seen>>

\* the exit of the with-block: conn.commit() publishes the working copy and
\* releases the write lock; the call answers success
WCommit(w) ==
    LET db == get_db_cursor(Cur, writers[w].working, FALSE)
    IN  /\ writers[w].pc = "commit"
        /\ inventory' = db.inventory
        /\ transaction_log' = db.transaction_log
        /\ sqlite_sequence' = db.sqlite_sequence
        /\ write_lock' = 0
        /\ writers' = [writers EXCEPT ![w].pc = "done", ![w].success = TRUE]
        /\ UNCHANGED <<last, nMut, rt, seen>>

\* conn.commit() raises (a reader keeps its shared lock past the busy
\* timeout): rollback, the lock is released, the call answers failure
WCommitRaises(w) ==
    LET db == get_db_cursor(Cur, writers[w].working, TRUE)
    IN  /\ writers[w].pc = "commit"
        /\ inventory' = db.inventory
        /\ transaction_log' = db.transaction_log
        /\ sqlite_sequence' = db.sqlite_sequence
        /\ write_lock' = 0
        /\ writers' = [writers EXCEPT ![w].pc = "done"]
        /\ UNCHANGED <<last, nMut, rt, seen>>

\* a read request at any moment: what its query returns of the two tables
Read ==
    LET writing == write_lock # 0
        working == IF writing THEN writers[write_lock].working ELSE Cur
        db == execute_query(Cur, working, writing)
    IN  /\ \E w \in Writers : writers[w].pc # "idle"
        /\ seen' = Some([inventory |-> db.inventory,
                         transaction_log |-> db.transaction_log,
                         during |-> writing])
        /\ seen' # seen
        /\ UNCHANGED <<inventory, transaction_log, sqlite_sequence, last, nMut, rt,
                       writers, write_lock>>

NextConc ==
    \/ \E w \in Writers : WRead(w)
    \/ \E w \in Writers : WRow(w)
    \/ \E w \in Writers : WBusy(w)
    \/ \E w \in Writers : WLog(w)
    \/ \E w \in Writers : WCommit(w)
    \/ \E w \in Writers : WCommitRaises(w)
    \/ Read

SpecConc == Init /\ [][NextConc]_vars

\* ================================================================ claims
\* rows whose name matches case-insensitively
Matching(inv, name) == {r \in inv : LOWER(r.name) = LOWER(name)}

\* a log entry recorded for item r: by item_id, or by name for the entries
\* the seeding writes without an item_id
EntryOf(e, r) ==
    \/ e.item_id = Some(r.id)
    \/ e.item_id = None /\ LOWER(e.item_name) = LOWER(r.name)

RECURSIVE QuantityChangeSum(_, _)
QuantityChangeSum(log, r) ==
    IF log = <<>> THEN 0
    ELSE (IF EntryOf(Head(log), r) THEN Head(log).quantity_change ELSE 0)
         + QuantityChangeSum(Tail(log), r)

\* this step is a ledger call of operation op answering the request in last'
Handled(op) == last = NoRequest /\ last' # NoRequest /\ last'.op = op

TablesUnchanged ==
    /\ inventory' = inventory
    /\ transaction_log' = transaction_log
    /\ sqlite_sequence' = sqlite_sequence

\* row r now holds quantity q and every other row is as before
OnlyQuantityOf(r, q) == inventory' = (inventory \ {r}) \cup {[r EXCEPT !.quantity = q]}

LastEntry == transaction_log[Len(transaction_log)]

\* C1: reconciliation law -- in every state reached by add/remove (and
\* update) requests from an empty or a seeded inventory, each item's quantity
\* is the sum of the quantity_change of its log entries, and is >= 0
C1_Reconciliation ==
    \A r \in inventory :
        /\ r.quantity = QuantityChangeSum(transaction_log, r)
        /\ r.quantity >= 0

\* an item whose history holds a seeding or an add, and a remove
C1_Witness ==
    \E r \in inventory :
        /\ \E i \in 1..Len(transaction_log) :
              /\ EntryOf(transaction_log[i], r)
              /\ transaction_log[i].action \in {"add", "initial_add"}
        /\ \E i \in 1..Len(transaction_log) :
              /\ EntryOf(transaction_log[i], r)
              /\ transaction_log[i].action = "remove"
              /\ transaction_log[i].quantity_change < 0

\* C2: through the HTTP routes and the voice dispatcher no negative quantity
\* is ever stored, and no log entry records a negative new_quantity
C2_NeverNegative ==
    /\ \A r \in inventory : r.quantity >= 0
    /\ \A i \in 1..Len(transaction_log) : transaction_log[i].new_quantity >= 0

\* a remove of more than the stock was refused while the stock stands at what
\* an earlier remove or update committed
C2_Witness ==
    /\ last.entry \in {"http_remove", "voice"}
    /\ last.op = "remove"
    /\ last.message.key = "INSUFFICIENT_STOCK"
    /\ transaction_log # <<>>
    /\ LastEntry.action \in {"remove", "update"}
    /\ Matching(inventory, last.item_name) # {}

\* C3: atomic unit of work -- a ledger write either fails and leaves all
\* tables as they were, or succeeds and commits the row write together with
\* exactly its log entry; a storage error in the with-block makes it fail
C3_AtomicStep ==
    (last = NoRequest /\ last' # NoRequest /\ last'.op \in {"add", "remove", "update"})
    => /\ last'.fault \in {"row", "log", "commit"} => ~last'.success
       /\ ~last'.success => TablesUnchanged
       /\ last'.success =>
            /\ Len(transaction_log') = Len(transaction_log) + 1
            /\ SubSeq(transaction_log', 1, Len(transaction_log)) = transaction_log
            /\ LET e == transaction_log'[Len(transaction_log')]
               IN  /\ e.action = last'.op
                   /\ \E r \in inventory' :
                         /\ e.item_id = Some(r.id)
                         /\ r.quantity = e.new_quantity
                         /\ inventory' \ {r} = inventory \ Matching(inventory, r.name)
                         /\ \/ /\ e.previous_quantity = None
                               /\ Matching(inventory, r.name) = {}
                               /\ e.quantity_change = e.new_quantity
                            \/ \E o \in inventory :
                                  /\ o.id = r.id
                                  /\ e.previous_quantity = Some(o.quantity)
                                  /\ e.quantity_change = r.quantity - o.quantity

C3_Atomic == [][C3_AtomicStep]_vars

\* the log insert raised after the row write, and the call failed
C3_Witness ==
    /\ last.op \in {"add", "remove", "update"}
    /\ last.fault = "log"
    /\ ~last.success
    /\ last.message.key \in {"Error adding item", "Error removing item", "Error updating item"}

\* C4: remove of more than the current quantity of an existing item fails,
\* its message carries the available quantity, and no table changes
C4_InsufficientStep ==
    \A r \in inventory :
        (/\ Handled("remove")
         /\ last'.fault # "lookup"
         /\ r \in Matching(inventory, last'.item_name)
         /\ last'.quantity > r.quantity)
        => /\ ~last'.success
           /\ last'.message = INSUFFICIENT_STOCK(last'.item_name, r.quantity)
           /\ last'.data = None
           /\ TablesUnchanged

C4_Insufficient == [][C4_InsufficientStep]_vars

C4_Witness ==
    /\ last.op = "remove"
    /\ last.fault = "none"
    /\ ~last.success
    /\ \E r \in Matching(inventory, last.item_name) :
          /\ last.quantity > r.quantity
          /\ last.message.num = Some(r.quantity)

\* C5: remove and update of a name no item matches fail with ItemNotFound and
\* no item, create nothing and log nothing -- for update whatever the sign of
\* the new quantity
C5_NotFoundStep ==
    (/\ Handled("remove") \/ Handled("update")
     /\ Matching(inventory, last'.item_name) = {})
    => /\ ~last'.success
       /\ last'.message = ITEM_NOT_FOUND(last'.item_name)
       /\ last'.data = None
       /\ TablesUnchanged

C5_NotFound == [][C5_NotFoundStep]_vars

\* an update to a negative quantity of a missing item answered ItemNotFound
C5_Witness ==
    /\ last.op = "update"
    /\ last.quantity < 0
    /\ Matching(inventory, last.item_name) = {}
    /\ last.message.key = "ITEM_NOT_FOUND"

\* C6: add without storage error -- on a case-insensitive match the row gets
\* current + qty and one entry ('add', +qty, previous = prior, new = sum) is
\* appended; with no match one row (name, qty) is created and one entry
\* ('add', qty, previous NULL, new = qty) is appended; no other row changes
C6_AddStep ==
    (Handled("add") /\ last'.fault = "none")
    => LET name == last'.item_name
           qty == last'.quantity
           hits == Matching(inventory, name)
       IN  /\ last'.success
           /\ hits # {} =>
                \E r \in hits :
                    /\ OnlyQuantityOf(r, r.quantity + qty)
                    /\ transaction_log' = Append(transaction_log,
                          LogEntry("add", Some(r.id), name, qty,
                                   Some(r.quantity), r.quantity + qty))
           /\ hits = {} =>
                \E n \in inventory' :
                    /\ \A r \in inventory : r.id # n.id
                    /\ n.name = name
                    /\ n.quantity = qty
                    /\ inventory' = inventory \cup {n}
                    /\ transaction_log' = Append(transaction_log,
                          LogEntry("add", Some(n.id), name, qty, None, qty))

C6_Add == [][C6_AddStep]_vars

\* an add under a name of another letter case than the stored one was added
\* to the stored item
C6_Witness ==
    /\ last.op = "add"
    /\ last.fault = "none"
    /\ last.success
    /\ LastEntry.previous_quantity # None
    /\ \E r \in inventory :
          /\ LastEntry.item_id = Some(r.id)
          /\ r.name # last.item_name
          /\ r.quantity = LastEntry.previous_quantity[1] + last.quantity

\* C7: remove of 0 < qty <= current without storage error succeeds, writes
\* current - qty, appends one entry ('remove', -qty, previous = current,
\* new = current - qty), and at qty = current keeps the row with quantity 0
C7_RemoveStep ==
    \A r \in inventory :
        (/\ Handled("remove")
         /\ last'.fault = "none"
         /\ r \in Matching(inventory, last'.item_name)
         /\ 0 < last'.quantity
         /\ last'.quantity <= r.quantity)
        => /\ last'.success
           /\ OnlyQuantityOf(r, r.quantity - last'.quantity)
           /\ \E k \in inventory' : k.id = r.id /\ k.name = r.name
                                    /\ k.quantity = r.quantity - last'.quantity
           /\ transaction_log' = Append(transaction_log,
                 LogEntry("remove", Some(r.id), last'.item_name, -last'.quantity,
                          Some(r.quantity), r.quantity - last'.quantity))

C7_Remove == [][C7_RemoveStep]_vars

\* a remove of the whole stock left the item in the inventory at quantity 0
C7_Witness ==
    /\ last.op = "remove"
    /\ last.fault = "none"
    /\ last.success
    /\ last.quantity > 0
    /\ LastEntry.action = "remove"
    /\ LastEntry.new_quantity = 0
    /\ \E r \in Matching(inventory, last.item_name) : r.quantity = 0

\* C8: update of an existing item without storage error -- newQty >= 0 sets
\* the quantity to newQty whatever it was, appends one entry ('update',
\* newQty - previous), and the same update applied again leaves the same
\* quantity; newQty < 0 fails and changes nothing
C8_UpdateStep ==
    \A r \in inventory :
        (/\ Handled("update")
         /\ last'.fault = "none"
         /\ r \in Matching(inventory, last'.item_name))
        => IF last'.quantity >= 0
           THEN /\ last'.success
                /\ OnlyQuantityOf(r, last'.quantity)
                /\ transaction_log' = Append(transaction_log,
                      LogEntry("update", Some(r.id), last'.item_name,
                               last'.quantity - r.quantity,
                               Some(r.quantity), last'.quantity))
                /\ update_item(Cur', last'.item_name, last'.quantity, "none").db.inventory
                      = inventory'
           ELSE /\ ~last'.success
                /\ TablesUnchanged

C8_Update == [][C8_UpdateStep]_vars

\* an update lowered a quantity to a value that is not prior + newQty
C8_Witness ==
    /\ last.op = "update"
    /\ last.fault = "none"
    /\ last.success
    /\ LastEntry.action = "update"
    /\ LastEntry.previous_quantity[1] > 0
    /\ last.quantity > 0
    /\ LastEntry.quantity_change < 0
    /\ \E r \in Matching(inventory, last.item_name) : r.quantity = last.quantity

\* C9: a successful add returns the post-mutation snapshot -- a non-null item
\* whose quantity is the one this add committed
C9_AddReturnsCommitted ==
    (last.op = "add" /\ last.fault = "none" /\ last.success)
    => /\ last.data # None
       /\ \E r \in Matching(inventory, last.item_name) :
             last.data[1].quantity = r.quantity

\* C10: starting with no item of that name, add(name, a) then check(name)
\* reports a, and add(name, b) then check(name) reports a + b
C10_RoundTrip ==
    /\ rt.stage >= 3 => rt.first = Some(rt.a)
    /\ rt.stage = 5 => rt.second = Some(rt.a + rt.b)

\* both checks of the scenario were answered, with different quantities
C10_Witness ==
    /\ rt.stage = 5
    /\ rt.first # None
    /\ rt.second # None
    /\ rt.first # rt.second
    /\ Len(transaction_log) >= 2

\* C11: check and list are pure reads -- dispatching a check (of an item
\* that exists or not) or a list changes no row, appends no log entry, and the
\* same command dispatched again on the tables it left gives the identical
\* result; a check of an item that does not exist answers success = FALSE
\* with ITEM_NOT_FOUND
C11_PureReadStep ==
    (Handled("check") \/ Handled("list")) =>
        /\ TablesUnchanged
        /\ LET again == execute_inventory_action(
                            Db(inventory', transaction_log', sqlite_sequence'),
                            last'.parsed[1], last'.fault)
           IN  /\ again.success = last'.success
               /\ again.message = last'.message
               /\ again.data = last'.data
               /\ again.db = Cur
        /\ (last'.op = "check" /\ Matching(inventory, last'.item_name) = {}) =>
              /\ ~last'.success
              /\ last'.message = ITEM_NOT_FOUND(last'.item_name)
              /\ last'.data = None

C11_PureRead == [][C11_PureReadStep]_vars

\* a check of an item that a stocked inventory does not hold was dispatched
C11_Witness ==
    /\ last.entry = "dispatch"
    /\ last.op = "check"
    /\ last.fault = "none"
    /\ inventory # {}
    /\ Matching(inventory, last.item_name) = {}
    /\ ~last.success

\* C12: names are unique ignoring case -- no two rows have names equal under
\* case folding, and an add whose name matches a row only case-insensitively
\* succeeds by adding to that row, whose stored name stays as it was
C12_UniqueNames ==
    \A r1 \in inventory, r2 \in inventory :
        LOWER(r1.name) = LOWER(r2.name) => r1 = r2

C12_AddStep ==
    (/\ Handled("add")
     /\ last'.fault = "none"
     /\ Matching(inventory, last'.item_name) # {}) =>
        /\ last'.success
        /\ \E r \in Matching(inventory, last'.item_name) :
              /\ OnlyQuantityOf(r, r.quantity + last'.quantity)
              /\ \E n \in inventory' : n.id = r.id /\ n.name = r.name

C12_CaseInsensitive == []C12_UniqueNames /\ [][C12_AddStep]_vars

\* an add was answered whose name differs from the stored name of the row it
\* added to
C12_Witness ==
    /\ last.op = "add"
    /\ last.success
    /\ last.quantity > 0
    /\ \E r \in Matching(inventory, last.item_name) :
          r.name # last.item_name /\ r.quantity >= last.quantity

\* C13: the log is append-only under add/remove/update -- a successful add,
\* remove or update appends exactly one entry, a failed or rejected one
\* appends none, and the entries that were there stay as they were; entries
\* disappear only when seeding clears the tables
C13_IsPrefix(log, longer) ==
    /\ Len(log) <= Len(longer)
    /\ SubSeq(longer, 1, Len(log)) = log

C13_AppendOnlyStep ==
    /\ (last = NoRequest /\ last' # NoRequest) =>
          /\ C13_IsPrefix(transaction_log, transaction_log')
          /\ Len(transaction_log') =
                Len(transaction_log)
                + (IF last'.op \in {"add", "remove", "update"} /\ last'.success
                   THEN 1 ELSE 0)
    /\ ~C13_IsPrefix(transaction_log, transaction_log') =>
          /\ last = NoRequest
          /\ last' = NoRequest
          /\ Len(transaction_log') = Len(initial_items)
          /\ \A i \in 1..Len(transaction_log') :
                transaction_log'[i].action = "initial_add"

C13_AppendOnly == [][C13_AppendOnlyStep]_vars

\* a remove was answered with success on a seeded inventory: the seeding's
\* entries are still there, followed by the entry of the remove
C13_Witness ==
    /\ last.op = "remove"
    /\ last.success
    /\ Len(transaction_log) = Len(initial_items) + 1
    /\ \A i \in 1..Len(initial_items) : transaction_log[i].action = "initial_add"
    /\ LastEntry.action = "remove"

\* C14: callers reject non-positive quantities -- on the HTTP add route and on
\* the voice-command path the ledger's add is invoked only with a quantity > 0,
\* and no add entry with a quantity of 0 is ever logged (stated for the
\* requests that meet no storage failure)
C14_CallersRejectNonPositive ==
    /\ (last.entry \in {"http_add", "voice"} /\ last.op = "add" /\ last.fault = "none")
          => last.quantity > 0
    /\ \A i \in 1..Len(transaction_log) :
          transaction_log[i].action = "add" => transaction_log[i].quantity_change > 0

\* C15: for a ParsedCommand whose action is none of add, remove, update,
\* check, list the dispatcher answers success = FALSE with INVALID_ACTION and
\* data null, and calls no ledger operation: no table changes
C15_InvalidActionStep ==
    (/\ last = NoRequest
     /\ last' # NoRequest
     /\ last'.entry = "dispatch"
     /\ last'.parsed[1].action \notin Actions) =>
        /\ ~last'.success
        /\ last'.message = INVALID_ACTION(last'.parsed[1].action)
        /\ last'.data = None
        /\ last'.op = "none"
        /\ TablesUnchanged

C16_NullParseStep ==
    (/\ last = NoRequest
     /\ last' # NoRequest
     /\ last'.entry = "voice") =>
        /\ Strip(last'.text[1]) = <<>> =>
              /\ parse(last'.text[1]) = None
              /\ last'.parsed = None
        /\ last'.parsed = None =>
              /\ last'.status = "error"
              /\ last'.message = INVALID_COMMAND(Strip(last'.text[1]))
              /\ last'.op = "none"
              /\ last'.data = None
              /\ TablesUnchanged

C16_NullParse == [][C16_NullParseStep]_vars

\* a text of white space only was sent to a stocked inventory and answered
\* with an error
C16_Witness ==
    /\ last.entry = "voice"
    /\ last.text # None
    /\ last.text[1] # <<>>
    /\ Strip(last.text[1]) = <<>>
    /\ last.parsed = None
    /\ last.status = "error"
    /\ inventory # {}

\* C17: list returns every item exactly once, the most recently updated
\* first -- after a successful add, remove or update the item it touched is
\* the first of the list, before the items with larger ids not touched since
C17_MostRecentFirst ==
    LET items == get_all_items(inventory)
    IN  /\ Len(items) = Cardinality(inventory)
        /\ {items[i] : i \in 1..Len(items)} = inventory
        /\ (/\ last.op \in {"add", "remove", "update"}
            /\ last.success
            /\ last.fault = "none") =>
              items[1] \in Matching(inventory, last.item_name)

\* what a parse result says, without the text it was parsed from
C18_Brief(p) ==
    [action |-> p.action, item |-> p.item, quantity |-> p.quantity,
     confidence |-> p.confidence]

\* C18: both surface orders of add and remove are recognized -- for a keyword
\* K, a quantity n, an optional unit word and an item X, '<K> <n> [unit] <X>'
\* and '<n> [unit] <X> <K>' both parse to the action of K, item X, quantity n,
\* with confidence 1.0
C18_BothOrders ==
    \A a \in {"add", "remove"} :
      \A k \in KeywordsOf(a, "en"), n \in 1..MaxQty, u \in UnitWords, x \in ParsedNames :
        (/\ last.entry = "parse"
         /\ last.text[1] \in {KeywordFirst(k, n, u, x), KeywordLast(k, n, u, x)}) =>
            /\ last.parsed # None
            /\ C18_Brief(last.parsed[1]) =
                  [action |-> a, item |-> x, quantity |-> n, confidence |-> "1.0"]

\* C19: for every action and each of English, Telugu and Hindi, the correctly
\* formed utterance built from a keyword of that language parses to the
\* expected action, item and quantity with confidence 1.0
C19_AllLanguages ==
    \A a \in Actions, lang \in Languages :
      \A k \in KeywordsOf(a, lang), n \in 1..MaxQty, x \in ParsedNames :
        (/\ last.entry = "parse"
         /\ last.text[1] = WellFormed(a, k, n, x)) =>
            /\ last.parsed # None
            /\ last.parsed[1].action = a
            /\ last.parsed[1].confidence = "1.0"
            /\ a \in {"add", "remove", "update", "check"} => last.parsed[1].item = x
            /\ a \in {"add", "remove", "update"} => last.parsed[1].quantity = n

\* C20: whenever a tier-1 pattern of add, remove, update or check matches, the
\* item of the ParsedCommand is not empty
C20_NonEmptyItem ==
    (/\ last.entry = "parse"
     /\ last.parsed # None
     /\ last.parsed[1].confidence = "1.0"
     /\ last.parsed[1].action \in {"add", "remove", "update", "check"}) =>
        last.parsed[1].item # <<>>

\* the item the fallback is said to build: every token, in order, that is
\* not an action keyword, not the quantity token and not a stop word
RECURSIVE C23_ItemTokens(_, _, _)
C23_ItemTokens(words, quantity_idx, i) ==
    IF i > Len(words) THEN <<>>
    ELSE IF IsActionWord(words[i]) \/ i = quantity_idx \/ words[i] \in STOP_WORDS
         THEN C23_ItemTokens(words, quantity_idx, i + 1)
    ELSE <<words[i]>> \o C23_ItemTokens(words, quantity_idx, i + 1)

\* C23: tier-2 fallback -- when no tier-1 pattern matches a text that holds an
\* action keyword, the result has the action of the first keyword token, the
\* first numeric token as quantity (1 without one) and, as item, every other
\* token that is no keyword and no stop word, wherever it stands ('2 rice add'
\* gives item rice, quantity 2); it is null only when no item token is left
C23_Fallback ==
    (last.entry = "parse" /\ last.text # None) =>
        LET t == Lower(Strip(last.text[1]))
            words == Split(t)
            action_idx == FirstActionIndex(words, 1)
            quantity_idx == FirstDigitIndex(words, 1)
            tokens == C23_ItemTokens(words, quantity_idx, 1)
        IN  (/\ t # <<>>
             /\ try_structured_parse(t) = None
             /\ action_idx # 0) =>
                IF tokens = <<>> THEN last.parsed = None
                ELSE /\ last.parsed # None
                     /\ last.parsed[1].action = ActionOf(words[action_idx])
                     /\ last.parsed[1].quantity =
                           (IF quantity_idx = 0 THEN 1 ELSE ToInt(words[quantity_idx]))
                     /\ last.parsed[1].item = Join(tokens)
                     /\ last.parsed[1].confidence = "0.7"

\* C24: the voice-command handler reports the outcome of the operation it
\* dispatched -- its envelope has status 'success' only if the dispatcher
\* result has success = true, and status 'error' whenever the operation failed
C24_StatusFollowsOutcome ==
    (last.entry = "voice" /\ last.parsed # None /\ last.fault = "none") =>
        /\ last.status = "success" => last.success
        /\ ~last.success => last.status = "error"

\* positions of the log entries recorded for row r
EntriesOf(log, r) == {i \in 1..Len(log) : EntryOf(log[i], r)}

\* the two tables as one commit leaves them: every row has a log entry and
\* its quantity is the new_quantity of its latest entry, and every entry
\* that names an item id has its row
Whole(inv, log) ==
    /\ \A r \in inv :
          LET es == EntriesOf(log, r)
          IN  /\ es # {}
              /\ log[CHOOSE i \in es : \A j \in es : j <= i].new_quantity = r.quantity
    /\ \A i \in 1..Len(log) :
          log[i].item_id # None => \E r \in inv : r.id = log[i].item_id[1]

\* C22: no partial reads -- whatever a read returns while add and remove
\* calls run, the inventory and the log it sees belong together: no row
\* with a new quantity that lacks its log entry, no log entry without the
\* quantity it records
C22_NoPartialRead ==
    seen # None => Whole(seen[1].inventory, seen[1].transaction_log)

\* a read that ran while a call held uncommitted statements, one of which
\* changes a row the read returned
C22_Witness ==
    /\ seen # None
    /\ seen[1].during
    /\ \E w \in Writers :
          /\ writers[w].pc = "commit"
          /\ writers[w].existing # None
          /\ writers[w].working.inventory # seen[1].inventory
          /\ writers[w].existing[1] \in seen[1].inventory

\* the latest entry of row r before position i (0: none)
EarlierEntry(log, r, i) ==
    LET es == {j \in EntriesOf(log, r) : j < i}
    IN  IF es = {} THEN 0 ELSE CHOOSE j \in es : \A k \in es : k <= j

\* C25: log chain continuity under one writer -- every entry that add, remove
\* or update wrote for an existing item has new_quantity = previous_quantity
\* + quantity_change, its previous_quantity is the new_quantity of the latest
\* earlier entry of the same item, and the new_quantity of an item's latest
\* entry is the item's current quantity
C25_LogChain ==
    \A r \in inventory :
        LET es == EntriesOf(transaction_log, r)
        IN  /\ \A i \in es :
                  LET entry == transaction_log[i]
                      before == EarlierEntry(transaction_log, r, i)
                  IN  (/\ entry.action \in {"add", "remove", "update"}
                       /\ entry.previous_quantity # None) =>
                          /\ entry.new_quantity =
                                entry.previous_quantity[1] + entry.quantity_change
                          /\ before # 0
                          /\ entry.previous_quantity[1] =
                                transaction_log[before].new_quantity
            /\ es # {} =>
                  transaction_log[CHOOSE i \in es : \A j \in es : j <= i].new_quantity
                     = r.quantity

\* an item with two chained entries of different operations on it
C25_Witness ==
    \E r \in inventory :
        \E i, j \in EntriesOf(transaction_log, r) :
            /\ i < j
            /\ transaction_log[i].previous_quantity # None
            /\ transaction_log[j].previous_quantity # None
            /\ transaction_log[i].action # transaction_log[j].action
            /\ transaction_log[j].quantity_change # 0

\* both calls answered success on the same existing item, and the second of
\* them read the item before the first committed
C26_Interleaved ==
    /\ \A w \in Writers : writers[w].pc = "done" /\ writers[w].success
    /\ \E w \in Writers : writers[w].overlap
    /\ \A w \in Writers : writers[w].existing # None
    /\ \A v, w \in Writers : writers[v].existing[1].id = writers[w].existing[1].id

\* the quantity both calls read, the row as it is now, and the two entries
\* the calls logged
C26_Initial == writers[1].existing[1].quantity

C26_Row == CHOOSE r \in inventory : r.id = writers[1].existing[1].id

C26_FirstChange == transaction_log[Len(transaction_log) - 1].quantity_change

C26_LastChange == transaction_log[Len(transaction_log)].quantity_change

\* C26: no lost update under concurrent writers -- when two add/remove calls
\* on the same existing item both read the item before either commits, and
\* both return success, the final quantity is the initial quantity plus the
\* sum of the two logged quantity_change values, and it is >= 0
C26_NoLostUpdate ==
    C26_Interleaved =>
        /\ C26_Row.quantity = C26_Initial + C26_FirstChange + C26_LastChange
        /\ C26_Row.quantity >= 0

\* C26 as amended: under the same interleaving the final quantity is the
\* initial quantity plus the quantity_change of the call that committed last
\* only (the change committed first is overwritten), both entries record the
\* initial quantity as previous_quantity, and the final quantity is >= 0
C26_LastCommitWins ==
    C26_Interleaved =>
        /\ C26_Row.quantity = C26_Initial + C26_LastChange
        /\ C26_Row.quantity >= 0
        /\ \A i \in {Len(transaction_log) - 1, Len(transaction_log)} :
              /\ EntryOf(transaction_log[i], C26_Row)
              /\ transaction_log[i].previous_quantity = Some(C26_Initial)
              /\ transaction_log[i].new_quantity =
                    C26_Initial + transaction_log[i].quantity_change

\* two interleaved removes that both succeeded: the stock fell by one remove
C26_Witness ==
    /\ C26_Interleaved
    /\ \A w \in Writers : writers[w].op = "remove"
    /\ C26_Row.quantity = C26_Initial + C26_LastChange
    /\ C26_Row.quantity # C26_Initial + C26_FirstChange + C26_LastChange

====
